---- MODULE Spec2Model ----
(***************************************************************************)
(* CareCast: the constrained staff-allocation optimizer                    *)
(* (optimization/staff_optimizer.py), the API handler that calls it        *)
(* (backend/main.py) and the forecast model registry                       *)
(* (models/ml_pipeline.py).                                                *)
(*                                                                         *)
(* Python dicts are functions whose DOMAIN is the set of keys; a value     *)
(* that may be missing is a sequence of length 0 or 1.  The LP solver      *)
(* (PuLP/CBC) is modelled by its contract: status Optimal with one of the  *)
(* minimum-cost feasible integer points, or status Infeasible.             *)
(***************************************************************************)
EXTENDS Integers, Sequences, FiniteSets, TLC

VARIABLES
    \* POST /optimize-staff
    pc, request, solver_available, result, response,
    \* HospitalMLPipeline
    models, feature_columns, target_columns,
    \* the calls made on the pipeline: how many trainings, the last call and
    \* the mapping the last predict_resources returned
    train_calls, ml_call, predictions,
    \* the keys of self.models in insertion order, and the model directory
    model_names, disk,
    \* a train_models call and a predict_resources call running in two
    \* threads: where each one is and what it has read
    trainer, reader,
    \* the series handed to the feature builder and the table it returns
    series, features

optVars == <<pc, request, solver_available, result, response>>

mlVars == <<models, feature_columns, target_columns,
            train_calls, ml_call, predictions>>

storeVars == <<model_names, disk>>

concVars == <<trainer, reader>>

featVars == <<series, features>>

vars == <<optVars, mlVars, storeVars, concVars, featVars>>

----------------------------------------------------------------------------
(* Arithmetic helpers: Python's max/min, int() (truncation toward zero)    *)

Max(a, b) == IF a >= b THEN a ELSE b

Min(a, b) == IF a <= b THEN a ELSE b

\* int(n / d) for d > 0: float division followed by truncation toward zero
IntDiv(n, d) == IF n >= 0 THEN n \div d ELSE -((-n) \div d)

MaxOfSet(S) == CHOOSE m \in S : \A n \in S : n <= m

MinOfSet(S) == CHOOSE m \in S : \A n \in S : m <= n

RECURSIVE SumOver(_, _)
\* sum([f[k] for k in S])
SumOver(f, S) ==
    IF S = {} THEN 0
    ELSE LET k == CHOOSE x \in S : TRUE IN f[k] + SumOver(f, S \ {k})

\* sum(d.values())
SumValues(d) == SumOver(d, DOMAIN d)

\* d.get(t, {}).get(s, default)
Get2(d, t, s, default) ==
    IF t \in DOMAIN d /\ s \in DOMAIN d[t] THEN d[t][s] ELSE default

\* d.get(k, default)
Get(d, k, default) == IF k \in DOMAIN d THEN d[k] ELSE default

\* the empty dict {}
EmptyDict == [k \in {} |-> 0]

----------------------------------------------------------------------------
(* StaffOptimizer.__init__                                                 *)

staff_types == {"Nurses", "Doctors", "Support_Staff"}

shifts == {"Morning", "Evening", "Night"}

base_costs ==
    [Nurses        |-> [Morning |-> 25, Evening |-> 28, Night |-> 32],
     Doctors       |-> [Morning |-> 80, Evening |-> 85, Night |-> 95],
     Support_Staff |-> [Morning |-> 18, Evening |-> 20, Night |-> 25]]

\* LpVariable(lowBound=1, upBound=50, cat='Integer')
lowBound == 1

upBound == 50

\* the decision variables staff_vars[staff_type][shift], named by their cell
Cells == staff_types \X shifts

----------------------------------------------------------------------------
(* Linear expressions and constraints as PuLP holds them: a constraint is  *)
(* a name, a mapping cell -> coefficient, a sense and a right-hand side.   *)

Con(name, terms, sense, rhs) ==
    [name |-> name, terms |-> terms, sense |-> sense, rhs |-> rhs]

\* the expression  1 * staff_vars[t][s]
Var(t, s) == [c \in {<<t, s>>} |-> 1]

\* the expression  sum of staff_vars[t][s] over the cells of S
SumVars(S) == [c \in S |-> 1]

\* the objective with the Morning rate of the category on every shift
CostExpr_MorningRate == [c \in Cells |-> base_costs[c[1]]["Morning"]]

\* total_cost += cost_per_person * staff_vars[staff_type][shift]
CostExpr == [c \in Cells |-> base_costs[c[1]][c[2]]]

RECURSIVE LhsOver(_, _, _)
LhsOver(terms, a, S) ==
    IF S = {} THEN 0
    ELSE LET c == CHOOSE x \in S : TRUE
         IN terms[c] * a[c[1]][c[2]] + LhsOver(terms, a, S \ {c})

\* the value of a linear expression at the allocation a
Lhs(terms, a) == LhsOver(terms, a, DOMAIN terms)

Holds(con, a) ==
    IF con.sense = ">=" THEN Lhs(con.terms, a) >= con.rhs
    ELSE Lhs(con.terms, a) <= con.rhs

----------------------------------------------------------------------------
(* Constraint assembly.  Each builder returns the constraints it adds.     *)

\* Nurse-to-patient ratios: Morning 1:6, Evening 1:8, Night 1:12
\* one nurse per seven patients in the morning
nurse_ratios_MorningSeven == [Morning |-> 7, Evening |-> 8, Night |-> 12]

nurse_ratios == [Morning |-> 6, Evening |-> 8, Night |-> 12]

\* the low-admission minimum of the morning set to 7
DoctorFloors_LowSeven(admissions) ==
    IF admissions > 12 THEN <<"High", 12, 10>>
    ELSE IF admissions < 5 THEN <<"Low", 7, 6>>
    ELSE <<>>

\* the doctor minimums (Morning, Evening) keyed on admissions, <<>> when the
\* mid-range adds none
DoctorFloors(admissions) ==
    IF admissions > 12 THEN <<"High", 12, 10>>
    ELSE IF admissions < 5 THEN <<"Low", 8, 6>>
    ELSE <<>>

\* high activity starting at 200
HighActivity_From200(total_activity) == total_activity >= 200

\* if total_activity > 200:  # High activity
HighActivity(total_activity) == total_activity > 200

_add_demand_constraints(predicted_demand) ==
    LET nurse ==
            IF "bed_occupancy" \in DOMAIN predicted_demand
            THEN LET bed_occupancy == predicted_demand["bed_occupancy"]
                 IN {Con("Min_Nurses_" \o s, Var("Nurses", s), ">=",
                         Max(3, IntDiv(bed_occupancy, nurse_ratios[s]))) :
                     s \in shifts}
            ELSE {}
        doctor ==
            IF "admissions" \in DOMAIN predicted_demand
            THEN LET admissions == predicted_demand["admissions"]
                     floors == DoctorFloors(admissions)
                 IN IF Len(floors) = 0 THEN {}
                    ELSE {Con(floors[1] \o "_Admission_Doctors_Morning",
                              Var("Doctors", "Morning"), ">=", floors[2]),
                          Con(floors[1] \o "_Admission_Doctors_Evening",
                              Var("Doctors", "Evening"), ">=", floors[3])}
            ELSE {}
        total_activity == Get(predicted_demand, "admissions", 0)
                          + Get(predicted_demand, "bed_occupancy", 0)
        support ==
            IF HighActivity(total_activity)
            THEN {Con("High_Activity_Support_" \o s,
                      Var("Support_Staff", s), ">=", 8) :
                  s \in {"Morning", "Evening"}}
            ELSE {}
    IN nurse \cup doctor \cup support

\* the band with a minimum step of 3 instead of 2
max_change_Min3(current_count) == Max(3, IntDiv(3 * current_count, 10))

\* max_change = max(2, int(current_count * 0.3))
max_change(current_count) == Max(2, IntDiv(3 * current_count, 10))

\* the stability constraints of one cell present in current_staff
StabilityOf(current_staff, t, s) ==
    LET current_count == current_staff[t][s]
    IN {Con("Min_Change_" \o t \o "_" \o s, Var(t, s), ">=",
            current_count - max_change(current_count)),
        Con("Max_Change_" \o t \o "_" \o s, Var(t, s), "<=",
            current_count + max_change(current_count))}

\* sum([sum(shifts.values()) for shifts in current_staff.values()])
total_current(current_staff) ==
    SumOver([t \in DOMAIN current_staff |-> SumValues(current_staff[t])],
            DOMAIN current_staff)

\* the weekend requirement at 80% instead of 90%
WeekendRhs_Eighty(current_staff, t) ==
    IntDiv(8 * (Get2(current_staff, t, "Morning", 5)
                + Get2(current_staff, t, "Evening", 5)), 10)

\* int(sum([current_staff.get(t, {}).get(s, 5) for s in M, E]) * 0.9)
WeekendRhs(current_staff, t) ==
    IntDiv(9 * (Get2(current_staff, t, "Morning", 5)
                + Get2(current_staff, t, "Evening", 5)), 10)

\* a night-nurse floor of 9
MinNightCoverage_NineNurses == [Doctors |-> 5, Nurses |-> 9]

\* the minimum coverage constraints: Min_Night_Doctors, Min_Night_Nurses
MinNightCoverage == [Doctors |-> 5, Nurses |-> 10]

_add_operational_constraints(current_staff) ==
    LET stability ==
            UNION {StabilityOf(current_staff, c[1], c[2]) :
                   c \in {d \in Cells : /\ d[1] \in DOMAIN current_staff
                                        /\ d[2] \in DOMAIN current_staff[d[1]]}}
        coverage ==
            {Con("Min_Night_Doctors", Var("Doctors", "Night"), ">=",
                 MinNightCoverage["Doctors"]),
             Con("Min_Night_Nurses", Var("Nurses", "Night"), ">=",
                 MinNightCoverage["Nurses"])}
        weekend ==
            IF total_current(current_staff) > 80
            THEN {Con("Weekend_" \o t,
                      SumVars({<<t, "Morning">>, <<t, "Evening">>}), ">=",
                      WeekendRhs(current_staff, t)) :
                  t \in {"Nurses", "Doctors"}}
            ELSE {}
    IN stability \cup coverage \cup weekend

\* the custom constraints without the total-staff minimum
_add_custom_constraints_NoMinimum(constraints) ==
    IF DOMAIN constraints = {} THEN {}
    ELSE (IF "max_budget" \in DOMAIN constraints
          THEN {Con("Budget_Constraint", CostExpr, "<=",
                    constraints["max_budget"])}
          ELSE {})
         \cup
         (IF "max_total_staff" \in DOMAIN constraints
          THEN {Con("Max_Total_Staff", SumVars(Cells), "<=",
                    constraints["max_total_staff"])}
          ELSE {})

_add_custom_constraints(constraints) ==
    IF DOMAIN constraints = {} THEN {}
    ELSE (IF "max_budget" \in DOMAIN constraints
          THEN {Con("Budget_Constraint", CostExpr, "<=",
                    constraints["max_budget"])}
          ELSE {})
         \cup
         (IF "min_total_staff" \in DOMAIN constraints
          THEN {Con("Min_Total_Staff", SumVars(Cells), ">=",
                    constraints["min_total_staff"])}
          ELSE {})
         \cup
         (IF "max_total_staff" \in DOMAIN constraints
          THEN {Con("Max_Total_Staff", SumVars(Cells), "<=",
                    constraints["max_total_staff"])}
          ELSE {})

\* prob: the objective and every constraint added before prob.solve
BuildProblem(current_staff, predicted_demand, constraints) ==
    [objective   |-> CostExpr,
     constraints |-> _add_demand_constraints(predicted_demand)
                     \cup _add_operational_constraints(current_staff)
                     \cup _add_custom_constraints(constraints)]

----------------------------------------------------------------------------
(* prob.solve(PULP_CBC_CMD): the solver's contract.  Every variable is an  *)
(* integer in lowBound..upBound; single-variable constraints tighten that  *)
(* range, the remaining constraints filter the points of the box.          *)

IsBound(con) == Cardinality(DOMAIN con.terms) = 1

Lo(prob, c) ==
    MaxOfSet({lowBound} \cup
             {con.rhs : con \in {k \in prob.constraints :
                                 IsBound(k) /\ DOMAIN k.terms = {c}
                                 /\ k.sense = ">="}})

Hi(prob, c) ==
    MinOfSet({upBound} \cup
             {con.rhs : con \in {k \in prob.constraints :
                                 IsBound(k) /\ DOMAIN k.terms = {c}
                                 /\ k.sense = "<="}})

Alloc9(nm, ne, nn, dm, de, dn, sm, se, sn) ==
    [Nurses        |-> [Morning |-> nm, Evening |-> ne, Night |-> nn],
     Doctors       |-> [Morning |-> dm, Evening |-> de, Night |-> dn],
     Support_Staff |-> [Morning |-> sm, Evening |-> se, Night |-> sn]]

\* the integer points allowed by the per-variable ranges lo, hi
BoxOf(lo, hi) ==
    IF \E c \in Cells : lo[c] > hi[c] THEN {}
    ELSE {Alloc9(nm, ne, nn, dm, de, dn, sm, se, sn) :
            nm \in lo[<<"Nurses", "Morning">>] .. hi[<<"Nurses", "Morning">>],
            ne \in lo[<<"Nurses", "Evening">>] .. hi[<<"Nurses", "Evening">>],
            nn \in lo[<<"Nurses", "Night">>] .. hi[<<"Nurses", "Night">>],
            dm \in lo[<<"Doctors", "Morning">>] .. hi[<<"Doctors", "Morning">>],
            de \in lo[<<"Doctors", "Evening">>] .. hi[<<"Doctors", "Evening">>],
            dn \in lo[<<"Doctors", "Night">>] .. hi[<<"Doctors", "Night">>],
            sm \in lo[<<"Support_Staff", "Morning">>]
                   .. hi[<<"Support_Staff", "Morning">>],
            se \in lo[<<"Support_Staff", "Evening">>]
                   .. hi[<<"Support_Staff", "Evening">>],
            sn \in lo[<<"Support_Staff", "Night">>]
                   .. hi[<<"Support_Staff", "Night">>]}

FeasibleSet(prob) ==
    LET lo == [c \in Cells |-> Lo(prob, c)]
        hi == [c \in Cells |-> Hi(prob, c)]
        rest == {k \in prob.constraints : ~IsBound(k)}
    IN {a \in BoxOf(lo, hi) : \A k \in rest : Holds(k, a)}

\* the optimal solutions the solver may report; empty when infeasible
Solutions(prob) ==
    LET F == FeasibleSet(prob)
    IN IF F = {} THEN {}
       ELSE LET best == MinOfSet({Lhs(prob.objective, a) : a \in F})
            IN {a \in F : Lhs(prob.objective, a) = best}

\* pulp.LpStatus[prob.status]
LpStatus == [Optimal |-> "Optimal", Infeasible |-> "Infeasible"]

----------------------------------------------------------------------------
(* Result construction                                                     *)

\* the cost with the Morning rate of the category on every shift
CostOf_MorningRate(allocation) ==
    SumOver([t \in DOMAIN allocation |->
                SumOver([s \in DOMAIN allocation[t] |->
                            allocation[t][s] * base_costs[t]["Morning"]],
                        DOMAIN allocation[t])],
            DOMAIN allocation)

\* sum of count * base_costs[staff_type][shift] over every cell of allocation
CostOf(allocation) ==
    SumOver([t \in DOMAIN allocation |->
                SumOver([s \in DOMAIN allocation[t] |->
                            allocation[t][s] * base_costs[t][s]],
                        DOMAIN allocation[t])],
            DOMAIN allocation)

_calculate_cost_breakdown(allocation) ==
    [t \in DOMAIN allocation |->
        [k \in DOMAIN allocation[t] \cup {"total"} |->
            IF k = "total"
            THEN SumOver([s \in DOMAIN allocation[t] |->
                             allocation[t][s] * base_costs[t][s]],
                         DOMAIN allocation[t])
            ELSE [count |-> allocation[t][k],
                  rate  |-> base_costs[t][k],
                  cost  |-> allocation[t][k] * base_costs[t][k]]]]

\* round(n / d, 2) in hundredths, ties to even, for n >= 0 and d > 0
Round2(n, d) ==
    LET q == (100 * n) \div d
        r == (100 * n) % d
    IN IF 2 * r > d \/ (2 * r = d /\ q % 2 = 1) THEN q + 1 ELSE q

_calculate_efficiency_metrics(allocation) ==
    LET total_staff ==
            SumOver([t \in DOMAIN allocation |-> SumValues(allocation[t])],
                    DOMAIN allocation)
        total_cost == CostOf(allocation)
    IN [total_staff |-> total_staff,
        average_cost_per_staff_x100 |->
            Round2(total_cost, Max(1, total_staff)),
        staff_distribution |->
            [t \in DOMAIN allocation |-> SumValues(allocation[t])],
        shift_coverage |->
            [s \in shifts |->
                SumOver([t \in DOMAIN allocation |-> allocation[t][s]],
                        DOMAIN allocation)]]

\* the solver reported Optimal with the variable values `values`
_extract_solution(values, prob) ==
    LET optimized_allocation ==
            [t \in staff_types |-> [s \in shifts |-> values[t][s]]]
    IN [optimized_allocation |-> optimized_allocation,
        total_cost           |-> CostOf(optimized_allocation),
        objective_value      |-> Lhs(prob.objective, values),
        solver_status        |-> LpStatus["Optimal"],
        cost_breakdown       |-> _calculate_cost_breakdown(optimized_allocation),
        efficiency_metrics   |->
            _calculate_efficiency_metrics(optimized_allocation)]

\* the adjustment that ignores the bed occupancy
FallbackAdjustment_NoOccupancy(predicted_demand, shift) ==
    IF "admissions" \in DOMAIN predicted_demand
    THEN IF predicted_demand["admissions"] > 10
         THEN (IF shift \in {"Morning", "Evening"} THEN 2 ELSE 1)
         ELSE IF predicted_demand["admissions"] < 5 THEN -1 ELSE 0
    ELSE 0

\* the adjustment of one shift in _fallback_solution
FallbackAdjustment(predicted_demand, shift) ==
    LET byAdmissions ==
            IF "admissions" \in DOMAIN predicted_demand
            THEN IF predicted_demand["admissions"] > 10
                 THEN (IF shift \in {"Morning", "Evening"} THEN 2 ELSE 1)
                 ELSE IF predicted_demand["admissions"] < 5 THEN -1 ELSE 0
            ELSE 0
        byOccupancy ==
            IF "bed_occupancy" \in DOMAIN predicted_demand
               /\ predicted_demand["bed_occupancy"] > 200
            THEN 1 ELSE 0
    IN byAdmissions + byOccupancy

\* the fallback reporting the value of `status` in solver_status
_fallback_solution_StatusWord(current_staff, predicted_demand) ==
    LET optimized_allocation ==
            [t \in staff_types |->
                [s \in shifts |->
                    Max(1, Get2(current_staff, t, s, 5)
                           + FallbackAdjustment(predicted_demand, s))]]
        total_cost == CostOf(optimized_allocation)
    IN [optimized_allocation |-> optimized_allocation,
        total_cost           |-> total_cost,
        objective_value      |-> total_cost,
        solver_status        |-> "fallback",
        cost_breakdown       |-> _calculate_cost_breakdown(optimized_allocation),
        efficiency_metrics   |->
            _calculate_efficiency_metrics(optimized_allocation)]

\* the fallback answering only for the categories present in current_staff
_fallback_solution_InputCategories(current_staff, predicted_demand) ==
    LET optimized_allocation ==
            [t \in staff_types \cap DOMAIN current_staff |->
                [s \in shifts |->
                    Max(1, Get2(current_staff, t, s, 5)
                           + FallbackAdjustment(predicted_demand, s))]]
        total_cost == CostOf(optimized_allocation)
    IN [optimized_allocation |-> optimized_allocation,
        total_cost           |-> total_cost,
        objective_value      |-> total_cost,
        solver_status        |-> "heuristic_fallback",
        cost_breakdown       |-> _calculate_cost_breakdown(optimized_allocation),
        efficiency_metrics   |->
            _calculate_efficiency_metrics(optimized_allocation)]

_fallback_solution(current_staff, predicted_demand) ==
    LET optimized_allocation ==
            [t \in staff_types |->
                [s \in shifts |->
                    Max(1, Get2(current_staff, t, s, 5)
                           + FallbackAdjustment(predicted_demand, s))]]
        total_cost == CostOf(optimized_allocation)
    IN [optimized_allocation |-> optimized_allocation,
        total_cost           |-> total_cost,
        objective_value      |-> total_cost,
        solver_status        |-> "heuristic_fallback",
        cost_breakdown       |-> _calculate_cost_breakdown(optimized_allocation),
        efficiency_metrics   |->
            _calculate_efficiency_metrics(optimized_allocation)]

\* result['status'] = ... added to the dict r
WithStatus(r, status) ==
    [optimized_allocation |-> r.optimized_allocation,
     total_cost           |-> r.total_cost,
     objective_value      |-> r.objective_value,
     solver_status        |-> r.solver_status,
     cost_breakdown       |-> r.cost_breakdown,
     efficiency_metrics   |-> r.efficiency_metrics,
     status               |-> status]

\* the results optimize_allocation may return when the solver runs: one per
\* optimal solution the solver may report, or the heuristic when there is none
optimize_allocation(current_staff, predicted_demand, constraints) ==
    LET prob == BuildProblem(current_staff, predicted_demand, constraints)
        S == Solutions(prob)
    IN IF S # {}
       THEN {WithStatus(_extract_solution(a, prob), "optimal") : a \in S}
       ELSE {WithStatus(_fallback_solution(current_staff, predicted_demand),
                        "fallback")}

----------------------------------------------------------------------------
(* backend/main.py: POST /optimize-staff                                   *)

\* the adjustment of one shift in the handler's except branch
ApiAdjustment(predicted_demand, shift) ==
    IF "admissions" \in DOMAIN predicted_demand
    THEN IF predicted_demand["admissions"] > 10
         THEN (IF shift = "Morning" THEN 2 ELSE 1)
         ELSE IF predicted_demand["admissions"] < 5 THEN -1 ELSE 0
    ELSE 0

\* the except branch of optimize_staff_allocation
ApiFallback(req) ==
    [optimized_allocation |->
        [t \in DOMAIN req.current_staff |->
            [s \in DOMAIN req.current_staff[t] |->
                Max(1, req.current_staff[t][s]
                       + ApiAdjustment(req.predicted_demand, s))]],
     cost_reduction         |-> "5.2",
     efficiency_improvement |-> "8.5",
     method                 |-> "heuristic_fallback"]

\* request.constraints or {}
OrEmpty(constraints) ==
    IF Len(constraints) = 0 THEN EmptyDict ELSE constraints[1]

----------------------------------------------------------------------------
(* The requests the model submits.  MaxDelta widens the current counts     *)
(* tried around each profile.                                              *)

MaxDelta == 2

\* a current_staff dict holding all nine built-in cells
Staff9(nm, ne, nn, dm, de, dn, sm, se, sn) ==
    Alloc9(nm, ne, nn, dm, de, dn, sm, se, sn)

\* predicted_demand with the keys that are supplied (a, b: 0 or 1 values)
Demand(a, b) ==
    [k \in (IF Len(a) = 1 THEN {"admissions"} ELSE {})
           \cup (IF Len(b) = 1 THEN {"bed_occupancy"} ELSE {}) |->
        IF k = "admissions" THEN a[1] ELSE b[1]]

Req(current_staff, predicted_demand, constraints) ==
    [current_staff    |-> current_staff,
     predicted_demand |-> predicted_demand,
     constraints      |-> constraints]

\* a ward with many admissions: the doctor minimums and nurse ratios bind
BusyRequests ==
    {Req(Staff9(18, 14, 7 + x, 10, 8, 2 + y, 1, 1, 0), Demand(<<14>>, <<b>>), c) :
        x \in 0 .. MaxDelta, y \in 0 .. MaxDelta, b \in {120, 130, 150},
        c \in {<<>>, <<EmptyDict>>,
               <<[min_total_staff |-> 79]>>,
               <<[max_total_staff |-> 77]>>,
               <<[max_budget |-> 3700, min_total_staff |-> 60]>>}}

\* a quiet ward: admissions low or mid-range, occupancy absent, low or > 200
QuietRequests ==
    {Req(Staff9(1 + x, 2, 8, 6, 4 + x, 3, 0, 0, 0), Demand(a, b), <<>>) :
        x \in 0 .. MaxDelta,
        a \in {<<>>, <<3>>, <<4>>, <<5>>, <<11>>, <<12>>},
        b \in {<<>>, <<18>>, <<210>>}}

\* total current staffing above 80 through a category and a shift the
\* optimizer does not know; the weekend constraints bind
WeekendRequests ==
    {Req([Nurses        |-> [Morning |-> 2 + x, Evening |-> 2, Night |-> 8,
                             Swing |-> 45],
          Doctors       |-> [Morning |-> 3, Evening |-> 3, Night |-> 3],
          Support_Staff |-> [Morning |-> 0, Evening |-> 0, Night |-> 0],
          Technicians   |-> [Morning |-> 30 + x]],
         Demand(a, <<>>), c) :
        x \in 0 .. MaxDelta, a \in {<<>>, <<8>>},
        c \in {<<>>, <<[min_total_staff |-> 30]>>}}

\* current counts near and above upBound; the specification's scenario
LargeRequests ==
    {Req(Staff9(20, 15, 12, 12, 10, 6, 8, 6, 4), Demand(<<a>>, <<180>>),
         <<[max_budget |-> 15000, min_total_staff |-> 60]>>) :
        a \in {3, 14}}
    \cup
    {Req(Staff9(40 + x, 70, 8, 10, 8, 3, 0, 0, 71), Demand(<<a>>, b), <<>>) :
        x \in 0 .. MaxDelta, a \in {14}, b \in {<<>>, <<210>>}}

\* cells missing from current_staff
PartialRequests ==
    {Req([Nurses  |-> [Morning |-> 1, Evening |-> 1 + x, Night |-> 8],
          Doctors |-> [Morning |-> 10, Night |-> 3],
          Support_Staff |-> [Morning |-> 0, Evening |-> 0, Night |-> 0]],
         Demand(<<a>>, <<20>>), <<>>) :
        x \in 0 .. MaxDelta, a \in {3, 14}}
    \cup
    {Req([Doctors |-> [Morning |-> 10, Evening |-> 8, Night |-> 3],
          Support_Staff |-> [Morning |-> 0, Evening |-> 0]],
         Demand(<<14>>, <<b>>), <<>>) :
        b \in {210, 300 + MaxDelta}}

\* admissions + bed occupancy at 200 and just above it
ActivityRequests ==
    {Req(Staff9(24, 18, 12, 5, 4, 3, 7 + x, 7, 0), Demand(<<a>>, <<190>>), c) :
        x \in 0 .. MaxDelta, a \in {10, 11},
        c \in {<<>>, <<[max_total_staff |-> 100]>>}}

Requests ==
    BusyRequests \cup QuietRequests \cup WeekendRequests
    \cup LargeRequests \cup PartialRequests \cup ActivityRequests

----------------------------------------------------------------------------
(* models/ml_pipeline.py: HospitalMLPipeline.  A DataFrame is its column   *)
(* names in order, its number of rows and the values of its last row; the  *)
(* regressor is opaque, its output at prediction time is any value of      *)
(* RawOutputs.                                                             *)

Range(seq) == {seq[i] : i \in 1 .. Len(seq)}

\* df[c] = ...: a new column goes last, an existing one keeps its place
AppendNew(cols, c) == IF c \in Range(cols) THEN cols ELSE Append(cols, c)

RECURSIVE AppendAll(_, _)
AppendAll(cols, new) ==
    IF Len(new) = 0 THEN cols
    ELSE AppendAll(AppendNew(cols, Head(new)), Tail(new))

\* self.target_columns as set by __init__
DefaultTargetColumns == <<"admissions", "bed_occupancy", "oxygen_level">>

\* if len(y_clean) < 50: continue
MinLabeledRows == 50

TimeFeatures ==
    <<"hour", "day_of_week", "month", "is_weekend", "is_business_hours",
      "is_night">>

lags == <<1, 2, 3, 6, 12, 24>>

\* the columns create_lag_features adds for one target
LagColumns(target_col) ==
    [i \in 1 .. Len(lags) |-> target_col \o "_lag_" \o ToString(lags[i])]
    \o <<target_col \o "_roll_mean_6", target_col \o "_roll_std_6",
         target_col \o "_roll_mean_24">>

RECURSIVE AddLagFeatures(_, _)
\* for target in self.target_columns: if target in df.columns: ...
AddLagFeatures(cols, targets) ==
    IF Len(targets) = 0 THEN cols
    ELSE AddLagFeatures(
            IF Head(targets) \in Range(cols)
            THEN AppendAll(cols, LagColumns(Head(targets)))
            ELSE cols,
            Tail(targets))

\* the columns prepare_features reads without checking that they exist
NeededColumns ==
    {"timestamp", "bed_occupancy", "oxygen_level", "admissions", "discharges"}

\* the columns of prepare_features(df): <<columns>>, or <<>> when a missing
\* column raises KeyError
prepare_features(cols, targets) ==
    IF ~(NeededColumns \subseteq Range(cols)) THEN <<>>
    ELSE <<AppendAll(AddLagFeatures(AppendAll(cols, TimeFeatures), targets),
                     <<"occupancy_oxygen_ratio", "admission_rate_trend",
                       "discharge_rate_trend">>)>>

\* f'{target_col}_next_{horizon}h'
ModelName(target_col, horizon) ==
    target_col \o "_next_" \o ToString(horizon) \o "h"

\* f'{horizon}h'
HorizonLabel(horizon) == ToString(horizon) \o "h"

\* the (target, horizon) pairs in the order of the two nested loops
PairSeq(targets, horizons) ==
    [i \in 1 .. Len(targets) * Len(horizons) |->
        <<targets[((i - 1) \div Len(horizons)) + 1],
          horizons[((i - 1) % Len(horizons)) + 1]>>]

\* targets.items(): the labelled pairs in the order they were inserted
TargetItems(cols, horizons, targets) ==
    LET HasColumn(p) == p[1] \in Range(cols)
    IN SelectSeq(PairSeq(targets, horizons), HasColumn)

NamesOf(pairs) == [i \in 1 .. Len(pairs) |-> ModelName(pairs[i][1], pairs[i][2])]

\* create_prediction_targets: the (target, horizon) pairs that get a label
create_prediction_targets(cols, horizons, targets) ==
    {<<t, h>> \in Range(targets) \X Range(horizons) : t \in Range(cols)}

\* len(y_clean): the rows of an n-row series whose label, the value
\* `horizon` rows later, lies inside the series
LabeledRows(n, horizon) == Cardinality({i \in 1 .. n : i + horizon <= n})

\* the columns predict_resources adds to a dict input that lacks them
required_columns ==
    <<"total_beds", "consumption_rate", "refill_event", "max_capacity",
      "bed_stress", "oxygen_stress">>

\* the values the regressor may return when evaluated
RawOutputs == {-2, 3}

----------------------------------------------------------------------------
(* The calls the model makes on the pipeline                               *)

MaxTrainCalls == 2

MinimalColumns ==
    <<"timestamp", "admissions", "discharges", "bed_occupancy",
      "oxygen_level", "occupancy_rate">>

\* the columns of HospitalDataGenerator.generate_complete_dataset
GeneratorColumns ==
    <<"timestamp", "admissions", "discharges", "bed_occupancy",
      "occupancy_rate", "total_beds", "oxygen_level", "consumption_rate",
      "refill_event", "max_capacity", "hour", "day_of_week", "is_weekend",
      "month", "bed_stress", "oxygen_stress">>

Frame(cols, n) == [columns |-> cols, rows |-> n]

\* series of 40 rows up to the 7-day series of 168 rows; one lacks a column
TrainingFrames ==
    {Frame(MinimalColumns, n) : n \in {40, 73, 74, 168}}
    \cup {Frame(GeneratorColumns, 168),
          Frame(<<"timestamp", "admissions", "bed_occupancy",
                  "oxygen_level">>, 168)}

TrainingHorizons == {<<1, 6, 24>>, <<24>>}

\* one current-state record as the API builds it; admissions is any int
CurrentState(a) ==
    [keys   |-> MinimalColumns,
     values |-> [admissions |-> a, discharges |-> 6, bed_occupancy |-> 180,
                 oxygen_level |-> 1200, occupancy_rate |-> 72]]

CurrentStates ==
    {CurrentState(a) : a \in {-3, 0, 8}}
    \cup {[keys   |-> <<"timestamp", "admissions", "bed_occupancy",
                        "oxygen_level">>,
           values |-> [admissions |-> 8, bed_occupancy |-> 180,
                       oxygen_level |-> 1200]]}

\* the bodies the API accepts: every field of HospitalState is required
HospitalStates == {CurrentState(a) : a \in {-3, 8}}

PredictionHorizons == {<<1>>, <<24, 48>>}

----------------------------------------------------------------------------
(* The pipeline's operations                                               *)

\* train_models(df, horizons)
train_models(df, horizons) ==
    /\ train_calls < MaxTrainCalls
    /\ train_calls' = train_calls + 1
    /\ predictions' = <<>>
    /\ UNCHANGED target_columns
    /\ LET df_features == prepare_features(df.columns, target_columns)
       IN IF Len(df_features) = 0
          THEN /\ ml_call' = [op |-> "train_models", raised |-> TRUE,
                              df |-> df, horizons |-> horizons]
               /\ UNCHANGED <<models, feature_columns, model_names>>
          ELSE LET exclude_cols == {"timestamp"} \cup Range(target_columns)
                   Keep(col) == col \notin exclude_cols
                   new_columns == SelectSeq(df_features[1], Keep)
                   targets == create_prediction_targets(
                                  df_features[1], horizons, target_columns)
                   trained == {p \in targets :
                                 ~(LabeledRows(df.rows, p[2]) < MinLabeledRows)}
                   names == {ModelName(p[1], p[2]) : p \in trained}
                   IsTrained(p) == p \in trained
               IN /\ feature_columns' = new_columns
                  /\ model_names' =
                        AppendAll(model_names,
                                  NamesOf(SelectSeq(
                                      TargetItems(df_features[1], horizons,
                                                  target_columns),
                                      IsTrained)))
                  /\ models' =
                        [name \in DOMAIN models \cup names |->
                            IF name \in names
                            THEN [trained_on |-> new_columns,
                                  fit        |-> train_calls + 1]
                            ELSE models[name]]
                  /\ ml_call' = [op |-> "train_models", raised |-> FALSE,
                                 df |-> df, horizons |-> horizons]
    /\ UNCHANGED <<optVars, disk, concVars, featVars>>

\* a prediction passed through unclipped
Clip_Identity(pred) == pred

\* max(0, pred)  # Ensure non-negative
Clip(pred) == Max(0, pred)

\* the fallback answering 0 whatever was observed
current_value_Zero(current_data, cols, target_col) == 0

\* df[target_col].iloc[-1] if target_col in df.columns else 0
current_value(current_data, cols, target_col) ==
    IF target_col \in Range(cols)
    THEN current_data.values[target_col] ELSE 0

\* the DataFrame predict_resources builds from a dict
FrameOfDict(current_data) ==
    AppendAll(current_data.keys, required_columns)

\* HospitalMLPipeline.predict_resources(current_data, horizons) with a dict
\* current_data: what it returns or raises, recorded under the name `op`
pipeline_predict_resources(op, current_data, horizons) ==
    /\ UNCHANGED <<models, feature_columns, target_columns, train_calls>>
    /\ UNCHANGED <<storeVars, concVars, featVars>>
    /\ LET cols == FrameOfDict(current_data)
           df_features == prepare_features(cols, target_columns)
           asked == {<<t, h>> \in Range(target_columns) \X Range(horizons) :
                        ModelName(t, h) \in DOMAIN models}
           order == PairSeq(target_columns, horizons)
           Fits(p) == models[ModelName(p[1], p[2])].trained_on
                        = feature_columns
           stale == \E p \in asked : ~Fits(p)
           \* the models evaluated up to the first one that rejects X
           rejected ==
               LET first == CHOOSE i \in 1 .. Len(order) :
                               /\ order[i] \in asked /\ ~Fits(order[i])
                               /\ \A j \in 1 .. i - 1 :
                                     order[j] \in asked => Fits(order[j])
               IN {order[j] : j \in 1 .. first} \cap asked
           raise(evaluated) ==
                    /\ ml_call' = [op |-> op,
                                   raised |-> TRUE,
                                   current_data |-> current_data,
                                   horizons |-> horizons,
                                   X_columns |-> feature_columns,
                                   evaluated |-> evaluated]
                    /\ predictions' = <<>>
       IN IF Len(df_features) = 0
          THEN raise({})
          ELSE \/ \E raw \in [asked -> RawOutputs] :
                    /\ predictions' =
                          <<[t \in Range(target_columns) |->
                               [label \in {HorizonLabel(h) :
                                             h \in Range(horizons)} |->
                                  LET h == CHOOSE k \in Range(horizons) :
                                              HorizonLabel(k) = label
                                  IN IF ModelName(t, h) \in DOMAIN models
                                     THEN Clip(raw[<<t, h>>])
                                     ELSE current_value(current_data,
                                                        cols, t)]]>>
                    /\ ml_call' = [op |-> op,
                                   raised |-> FALSE,
                                   current_data |-> current_data,
                                   horizons |-> horizons,
                                   X_columns |-> feature_columns,
                                   evaluated |-> asked,
                                   raw |-> raw]
               \* the regressor may reject columns it was not fitted on
               \/ stale /\ raise(rejected)

\* a caller of the pipeline predicts
predict_resources(current_data, horizons) ==
    /\ pipeline_predict_resources("predict_resources", current_data, horizons)
    /\ UNCHANGED optVars

\* POST /predict-resources: 503 raised inside the try block when there is no
\* model, and every exception turned into a 500 by the except branch
predict_resources_endpoint(current_state, horizons) ==
    /\ IF Cardinality(DOMAIN models) = 0
       THEN /\ ml_call' = [op |-> "POST /predict-resources",
                           raised |-> FALSE, called |-> FALSE,
                           current_data |-> current_state,
                           horizons |-> horizons]
            /\ predictions' = <<>>
            /\ response' = <<[status_code |-> 500,
                              detail |-> "Prediction error"]>>
            /\ UNCHANGED <<models, feature_columns, target_columns,
                           train_calls>>
            /\ UNCHANGED <<storeVars, concVars, featVars>>
       ELSE /\ pipeline_predict_resources("POST /predict-resources",
                                          current_state, horizons)
            /\ response' = IF Len(predictions') = 1
                           THEN <<[status_code |-> 200,
                                   predictions |-> predictions'[1],
                                   horizons_hours |-> horizons]>>
                           ELSE <<[status_code |-> 500,
                                   detail |-> "Prediction error"]>>
    /\ UNCHANGED <<pc, request, solver_available, result>>

\* save_models(): one artifact per model, then the metadata
save_models ==
    /\ disk' = [metadata  |-> <<[feature_columns |-> feature_columns,
                                 target_columns  |-> target_columns,
                                 model_names     |-> model_names]>>,
                artifacts |-> [name \in DOMAIN disk.artifacts
                                         \cup DOMAIN models |->
                                  IF name \in DOMAIN models
                                  THEN models[name]
                                  ELSE disk.artifacts[name]]]
    /\ ml_call' = [op |-> "save_models"]
    /\ predictions' = <<>>
    /\ UNCHANGED <<models, feature_columns, target_columns, train_calls,
                   model_names>>
    /\ UNCHANGED <<optVars, concVars, featVars>>

\* the names of a list up to the first unreadable artifact, that one excluded
RECURSIVE ReadableUpTo(_, _)
ReadableUpTo(names, unreadable) ==
    IF Len(names) = 0 THEN <<>>
    ELSE IF Head(names) \in DOMAIN disk.artifacts
            /\ Head(names) \in unreadable
         THEN <<>>
         ELSE <<Head(names)>> \o ReadableUpTo(Tail(names), unreadable)

\* load_models() when joblib.load fails on the files in `unreadable`
load_models(unreadable) ==
    /\ LET before == [models |-> models,
                      feature_columns |-> feature_columns,
                      target_columns |-> target_columns]
       IN IF Len(disk.metadata) = 0 \/ "metadata" \in unreadable
          THEN /\ ml_call' = [op |-> "load_models", returned |-> FALSE,
                              before |-> before]
               /\ UNCHANGED <<models, feature_columns, target_columns,
                              model_names>>
          ELSE LET metadata == disk.metadata[1]
                   read == ReadableUpTo(metadata.model_names, unreadable)
                   Exists(name) == name \in DOMAIN disk.artifacts
                   loaded == SelectSeq(read, Exists)
               IN /\ feature_columns' = metadata.feature_columns
                  /\ target_columns' = metadata.target_columns
                  /\ models' = [name \in DOMAIN models \cup Range(loaded) |->
                                   IF name \in Range(loaded)
                                   THEN disk.artifacts[name]
                                   ELSE models[name]]
                  /\ model_names' = AppendAll(model_names, loaded)
                  /\ ml_call' = [op |-> "load_models",
                                 returned |-> Len(read)
                                              = Len(metadata.model_names),
                                 before |-> before]
    /\ predictions' = <<>>
    /\ UNCHANGED <<train_calls, disk>>
    /\ UNCHANGED <<optVars, concVars, featVars>>

----------------------------------------------------------------------------
(* The values of the feature table.  A DataFrame is a function from column *)
(* names to columns; a column is a sequence of cells, a cell is <<v>> or   *)
(* <<>> for NaN.  A mean is kept exact as [num, den]; a standard deviation *)
(* is kept as its square, the sample variance, in the same form.  The      *)
(* columns derived from the timestamp do not depend on the resource values *)
(* and are covered by prepare_features above.                              *)

Missing == <<>>

Present(v) == <<v>>

\* Series.shift that moves no value at all
shift_None(col, periods) == col

\* Series.shift(periods) with periods > 0
shift(col, periods) ==
    [t \in 1 .. Len(col) |->
        IF t - periods >= 1 THEN col[t - periods] ELSE Missing]

\* the rows of the trailing window that ends at row t
Window(t, window) == {i \in 1 .. t : i > t - window}

SumRows(col, S) == SumOver([i \in S |-> col[i][1]], S)

SumSquares(col, S) == SumOver([i \in S |-> col[i][1] * col[i][1]], S)

\* Series.rolling(window, min_periods=1).mean()
rolling_mean(col, window) ==
    [t \in 1 .. Len(col) |->
        LET S == Window(t, window)
        IN Present([num |-> SumRows(col, S), den |-> Cardinality(S)])]

\* Series.rolling(window, min_periods=1).std(): NaN on a single value
rolling_std(col, window) ==
    [t \in 1 .. Len(col) |->
        LET S == Window(t, window)
            c == Cardinality(S)
        IN IF c < 2 THEN Missing
           ELSE Present([num |-> c * SumSquares(col, S)
                                 - SumRows(col, S) * SumRows(col, S),
                         den |-> c * (c - 1)])]

\* df[name] = col
WithColumn(df, name, col) ==
    [k \in DOMAIN df \cup {name} |-> IF k = name THEN col ELSE df[k]]

RECURSIVE AddLags(_, _, _)
\* for lag in lags: df[f'{target_col}_lag_{lag}'] = df[target_col].shift(lag)
AddLags(df, target_col, ks) ==
    IF Len(ks) = 0 THEN df
    ELSE AddLags(WithColumn(df, target_col \o "_lag_" \o ToString(Head(ks)),
                            shift(df[target_col], Head(ks))),
                 target_col, Tail(ks))

create_lag_features(df, target_col) ==
    LET d1 == AddLags(df, target_col, lags)
        d2 == WithColumn(d1, target_col \o "_roll_mean_6",
                         rolling_mean(df[target_col], 6))
        d3 == WithColumn(d2, target_col \o "_roll_std_6",
                         rolling_std(df[target_col], 6))
    IN WithColumn(d3, target_col \o "_roll_mean_24",
                  rolling_mean(df[target_col], 24))

RECURSIVE LagAll(_, _)
\* for target in self.target_columns: if target in df.columns: ...
LagAll(df, targets) ==
    IF Len(targets) = 0 THEN df
    ELSE LagAll(IF Head(targets) \in DOMAIN df
                THEN create_lag_features(df, Head(targets)) ELSE df,
                Tail(targets))

\* fillna(method='ffill') on one column
ffill(col) ==
    [t \in 1 .. Len(col) |->
        LET P == {i \in 1 .. t : Len(col[i]) = 1}
        IN IF P = {} THEN Missing ELSE col[MaxOfSet(P)]]

\* fillna(method='bfill') on one column
bfill(col) ==
    [t \in 1 .. Len(col) |->
        LET P == {i \in t .. Len(col) : Len(col[i]) = 1}
        IN IF P = {} THEN Missing ELSE col[MinOfSet(P)]]

\* the table prepare_features returns, the timestamp columns left out
prepare_feature_values(df, targets) ==
    LET d1 == LagAll(df, targets)
        d2 == WithColumn(d1, "occupancy_oxygen_ratio",
                  [t \in 1 .. Len(df["bed_occupancy"]) |->
                      Present([num |-> df["bed_occupancy"][t][1],
                               den |-> df["oxygen_level"][t][1] + 1])])
        d3 == WithColumn(d2, "admission_rate_trend",
                         rolling_mean(df["admissions"], 6))
        d4 == WithColumn(d3, "discharge_rate_trend",
                         rolling_mean(df["discharges"], 6))
    IN [k \in DOMAIN d4 |-> bfill(ffill(d4[k]))]

\* the series the feature builder is given: hourly rows of a repeating
\* pattern, and with each a second series that follows it up to a row and
\* departs from it afterwards, or stops there
Ramp(n, a, b) == [t \in 1 .. n |-> Present((a * t + b) % 7)]

SeriesOf(n, a) ==
    [admissions    |-> Ramp(n, a, 2),
     discharges    |-> Ramp(n, a + 1, 1),
     bed_occupancy |-> [t \in 1 .. n |-> Present(150 + ((a * t) % 5))],
     oxygen_level  |-> [t \in 1 .. n |-> Present(1200 - 15 * (t % 4))]]

\* the series s changed by d from row j on
Depart(s, j, d) ==
    [k \in DOMAIN s |->
        [t \in 1 .. Len(s[k]) |->
            IF t >= j THEN Present(s[k][t][1] + d) ELSE s[k][t]]]

\* the first j rows of the series s
Truncate(s, j) == [k \in DOMAIN s |-> SubSeq(s[k], 1, j)]

SeriesLengths == {1, 2, 3, 8, 26}

SeriesPairs ==
    {<<SeriesOf(n, a), Depart(SeriesOf(n, a), j, 3)>> :
        n \in SeriesLengths, a \in {0, 1, 3}, j \in {2, 7, 26}}
    \cup {<<SeriesOf(n, a), Truncate(SeriesOf(n, a), 1)>> :
            n \in SeriesLengths, a \in {1, 3}}

\* the data-loading collaborator hands over the series
LoadSeries(pair) ==
    /\ series = <<>>
    /\ series' = pair
    /\ UNCHANGED features
    /\ UNCHANGED <<optVars, mlVars, storeVars, concVars>>

\* create_lag_features(df, target_col) applied to the two series
call_create_lag_features(target_col) ==
    /\ Len(series) = 2
    /\ features' = [op |-> "create_lag_features", target_col |-> target_col,
                    tables |-> [i \in 1 .. 2 |->
                                   create_lag_features(series[i], target_col)]]
    /\ UNCHANGED series
    /\ UNCHANGED <<optVars, mlVars, storeVars, concVars>>

\* prepare_features(df) applied to the two series
call_prepare_features ==
    /\ Len(series) = 2
    /\ features' = [op |-> "prepare_features",
                    tables |-> [i \in 1 .. 2 |->
                                   prepare_feature_values(series[i],
                                                          target_columns)]]
    /\ UNCHANGED series
    /\ UNCHANGED <<optVars, mlVars, storeVars, concVars>>

----------------------------------------------------------------------------
(* train_models and predict_resources statement by statement, for callers  *)
(* that run them in two threads: the pipeline holds no lock.               *)

\* the prediction calls the second thread makes
MaxPredictCalls == 1

Registry == [models |-> models, feature_columns |-> feature_columns]

\* train_models up to the loop: prepare_features, self.feature_columns = ...,
\* create_prediction_targets
train_begin(df, horizons) ==
    /\ trainer.pc # "fitting"
    /\ train_calls < MaxTrainCalls
    /\ train_calls' = train_calls + 1
    /\ LET df_features == prepare_features(df.columns, target_columns)
       IN IF Len(df_features) = 0
          THEN /\ trainer' = [pc |-> "done", id |-> train_calls + 1,
                              raised |-> TRUE,
                              before |-> Registry, after |-> Registry]
               /\ UNCHANGED feature_columns
          ELSE LET exclude_cols == {"timestamp"} \cup Range(target_columns)
                   Keep(col) == col \notin exclude_cols
                   new_columns == SelectSeq(df_features[1], Keep)
               IN /\ feature_columns' = new_columns
                  /\ trainer' = [pc |-> "fitting", id |-> train_calls + 1,
                                 rows |-> df.rows,
                                 pending |-> TargetItems(df_features[1],
                                                 horizons, target_columns),
                                 before |-> Registry]
    /\ reader' = IF reader.pc = "reading"
                 THEN [reader EXCEPT !.during = @ \cup {train_calls + 1}]
                 ELSE reader
    /\ UNCHANGED <<models, model_names, target_columns, ml_call, predictions>>
    /\ UNCHANGED <<optVars, disk, featVars>>

\* one iteration of the loop over targets.items(), and the end of the call
\* after the last one
train_fit ==
    /\ trainer.pc = "fitting"
    /\ IF Len(trainer.pending) = 0
       THEN /\ trainer' = [pc |-> "done", id |-> trainer.id,
                           raised |-> FALSE,
                           before |-> trainer.before, after |-> Registry]
            /\ UNCHANGED <<models, model_names>>
       ELSE LET p == Head(trainer.pending)
                name == ModelName(p[1], p[2])
            IN /\ trainer' = [trainer EXCEPT !.pending = Tail(@)]
               /\ IF LabeledRows(trainer.rows, p[2]) < MinLabeledRows
                  THEN UNCHANGED <<models, model_names>>
                  ELSE /\ models' =
                             [n \in DOMAIN models \cup {name} |->
                                 IF n = name
                                 THEN [trained_on |-> feature_columns,
                                       fit        |-> trainer.id]
                                 ELSE models[n]]
                       /\ model_names' = AppendNew(model_names, name)
    /\ UNCHANGED <<feature_columns, target_columns, train_calls, ml_call,
                   predictions, disk, reader>>
    /\ UNCHANGED <<optVars, featVars>>

\* predict_resources up to X = df_features[self.feature_columns].iloc[-1:]
predict_begin(current_data, horizons) ==
    /\ reader.pc # "reading"
    /\ reader.calls < MaxPredictCalls
    /\ LET cols == FrameOfDict(current_data)
           df_features == prepare_features(cols, target_columns)
           during == IF trainer.pc = "fitting" THEN {trainer.id} ELSE {}
       IN reader' =
            IF Len(df_features) = 0
            THEN [pc |-> "done", calls |-> reader.calls + 1,
                  raised |-> TRUE, during |-> during]
            ELSE [pc |-> "reading", calls |-> reader.calls + 1,
                  during |-> during,
                  current_data |-> current_data, cols |-> cols,
                  X_columns |-> feature_columns,
                  todo |-> PairSeq(target_columns, horizons),
                  seen |-> EmptyDict, out |-> EmptyDict]
    /\ UNCHANGED <<mlVars, storeVars, trainer>>
    /\ UNCHANGED <<optVars, featVars>>

\* one iteration of the loop over the horizons of a target: look the model
\* up and evaluate it on X, or carry the current value forward; the mapping
\* is returned after the last one
predict_pair ==
    /\ reader.pc = "reading"
    /\ IF Len(reader.todo) = 0
       THEN reader' = [pc |-> "done", calls |-> reader.calls,
                       raised |-> FALSE,
                       during |-> reader.during,
                       X_columns |-> reader.X_columns,
                       seen |-> reader.seen, out |-> reader.out]
       ELSE LET p == Head(reader.todo)
                name == ModelName(p[1], p[2])
                Put(d, v) == [k \in DOMAIN d \cup {p} |->
                                 IF k = p THEN v ELSE d[k]]
            IN IF name \in DOMAIN models
               THEN \/ \E pred \in RawOutputs :
                         reader' = [reader EXCEPT
                                      !.todo = Tail(@),
                                      !.seen = Put(@, <<models[name]>>),
                                      !.out  = Put(@, Clip(pred))]
                    \* the regressor may reject columns it was not fitted on
                    \/ /\ models[name].trained_on # reader.X_columns
                       /\ reader' = [pc |-> "done", calls |-> reader.calls,
                                     raised |-> TRUE,
                                     during |-> reader.during,
                                     X_columns |-> reader.X_columns,
                                     seen |-> Put(reader.seen,
                                                  <<models[name]>>),
                                     out |-> reader.out]
               ELSE reader' = [reader EXCEPT
                                 !.todo = Tail(@),
                                 !.seen = Put(@, <<>>),
                                 !.out  = Put(@, current_value(
                                                   reader.current_data,
                                                   reader.cols, p[1]))]
    /\ UNCHANGED <<mlVars, storeVars, trainer>>
    /\ UNCHANGED <<optVars, featVars>>

----------------------------------------------------------------------------
(* The optimizer's state machine: a request arrives, the handler answers.  *)

Init ==
    /\ pc = "idle"
    /\ request = <<>>
    /\ solver_available \in BOOLEAN
    /\ result = <<>>
    /\ response = <<>>
    /\ models = EmptyDict
    /\ feature_columns = <<>>
    /\ target_columns = DefaultTargetColumns
    /\ train_calls = 0
    /\ ml_call = [op |-> "none"]
    /\ predictions = <<>>
    /\ model_names = <<>>
    /\ disk = [metadata |-> <<>>, artifacts |-> EmptyDict]
    /\ trainer = [pc |-> "idle"]
    /\ reader = [pc |-> "idle", calls |-> 0]
    /\ series = <<>>
    /\ features = [op |-> "none"]

\* FastAPI parses the body of POST /optimize-staff into an OptimizationRequest
ReceiveRequest(req) ==
    /\ pc = "idle"
    /\ request' = req
    /\ pc' = "received"
    /\ UNCHANGED <<solver_available, result, response>>
    /\ UNCHANGED <<mlVars, storeVars, concVars, featVars>>

\* the handler: optimize_allocation returns, or prob.solve raises because the
\* CBC solver cannot be run and the except branch answers
optimize_staff_allocation ==
    /\ pc = "received"
    /\ IF solver_available
       THEN \E r \in optimize_allocation(request.current_staff,
                                         request.predicted_demand,
                                         OrEmpty(request.constraints)) :
                /\ result' = <<r>>
                /\ response' = <<[optimization_result |-> r,
                                  status |-> "success"]>>
       ELSE /\ result' = <<>>
            /\ response' = <<[optimization_result |-> ApiFallback(request),
                              status |-> "success"]>>
    /\ pc' = "done"
    /\ UNCHANGED <<request, solver_available>>
    /\ UNCHANGED <<mlVars, storeVars, concVars, featVars>>

Next ==
    \/ \E req \in Requests : ReceiveRequest(req)
    \/ optimize_staff_allocation

Spec == Init /\ [][Next]_vars

\* the pipeline alone: trainings and predictions in any order
NextML ==
    \/ \E df \in TrainingFrames, horizons \in TrainingHorizons :
          train_models(df, horizons)
    \/ \E current_data \in CurrentStates, horizons \in PredictionHorizons :
          predict_resources(current_data, horizons)

InitML == Init /\ solver_available = TRUE

SpecML == InitML /\ [][NextML]_vars

\* the API: the pipeline is trained (the startup handler does it once, on the
\* generator's series) and POST /predict-resources is served
ApiFrames == {Frame(GeneratorColumns, 168), Frame(MinimalColumns, 40)}

NextApi ==
    \/ \E df \in ApiFrames, horizons \in TrainingHorizons :
          train_models(df, horizons)
    \/ \E current_state \in HospitalStates, horizons \in PredictionHorizons :
          predict_resources_endpoint(current_state, horizons)

SpecApi == InitML /\ [][NextApi]_vars

\* the feature builder on its own
NextFeatures ==
    \/ \E pair \in SeriesPairs : LoadSeries(pair)
    \/ \E target_col \in Range(DefaultTargetColumns) :
          call_create_lag_features(target_col)
    \/ call_prepare_features

SpecFeatures == InitML /\ [][NextFeatures]_vars

\* the calls made on a pipeline that saves and restores its registry; a load
\* finds every file readable, or the metadata or one artifact unreadable
StoreFrames == {Frame(GeneratorColumns, 168), Frame(MinimalColumns, 73)}

StoreStates == {CurrentState(8)}

StoreHorizons == {<<24>>}

Unreadable ==
    {{}, {"metadata"}}
    \cup {{ModelName(t, 24)} : t \in Range(DefaultTargetColumns)}

NextStore ==
    \/ \E df \in StoreFrames, horizons \in TrainingHorizons :
          train_models(df, horizons)
    \/ save_models
    \/ \E unreadable \in Unreadable : load_models(unreadable)
    \/ \E current_data \in StoreStates, horizons \in StoreHorizons :
          predict_resources(current_data, horizons)

SpecStore == InitML /\ [][NextStore]_vars

\* the series and the requests of the two-thread runs
ThreadFrames == {Frame(GeneratorColumns, 168), Frame(MinimalColumns, 73)}

ThreadStates == {CurrentState(8)}

ThreadHorizons == {<<24>>}

ThreadTrainingHorizons == {<<24>>, <<1, 24>>}

\* a training thread and a prediction thread on one pipeline
NextThreads ==
    \/ \E df \in ThreadFrames, horizons \in ThreadTrainingHorizons :
          train_begin(df, horizons)
    \/ train_fit
    \/ \E current_data \in ThreadStates, horizons \in ThreadHorizons :
          predict_begin(current_data, horizons)
    \/ predict_pair

SpecThreads == InitML /\ [][NextThreads]_vars

----------------------------------------------------------------------------
(* What the claims speak of, stated from the request and the returned      *)
(* result alone.                                                           *)

Returned == pc = "done" /\ Len(result) = 1

OnOptimalPath == Returned /\ result[1].status = "optimal"

OnFallbackPath == Returned /\ result[1].status = "fallback"

\* the cells of a dict of dicts
PairsOf(d) ==
    {c \in (DOMAIN d) \X (UNION {DOMAIN d[t] : t \in DOMAIN d}) :
        c[2] \in DOMAIN d[c[1]]}

\* sum of count x rate over the cells of an allocation
RatedCost(a) ==
    SumOver([c \in PairsOf(a) |-> a[c[1]][c[2]] * base_costs[c[1]][c[2]]],
            PairsOf(a))

\* number of staff over the cells of an allocation
HeadCount(a) == SumOver([c \in PairsOf(a) |-> a[c[1]][c[2]]], PairsOf(a))

\* the stability band of a current count k
BandWidth(k) == Max(2, (3 * k) \div 10)

\* the lower limits a request puts on one cell
CellFloors(req, t, s) ==
    LET cs == req.current_staff
        pd == req.predicted_demand
        ratio == IF s = "Morning" THEN 6 ELSE IF s = "Evening" THEN 8 ELSE 12
    IN {1}
       \cup (IF t = "Nurses" /\ "bed_occupancy" \in DOMAIN pd
             THEN {Max(3, pd["bed_occupancy"] \div ratio)} ELSE {})
       \cup (IF t = "Doctors" /\ "admissions" \in DOMAIN pd
                /\ pd["admissions"] > 12 /\ s # "Night"
             THEN {IF s = "Morning" THEN 12 ELSE 10} ELSE {})
       \cup (IF t = "Doctors" /\ "admissions" \in DOMAIN pd
                /\ pd["admissions"] < 5 /\ s # "Night"
             THEN {IF s = "Morning" THEN 8 ELSE 6} ELSE {})
       \cup (IF t = "Support_Staff" /\ s # "Night"
                /\ Get(pd, "admissions", 0) + Get(pd, "bed_occupancy", 0) > 200
             THEN {8} ELSE {})
       \cup (IF <<t, s>> \in PairsOf(cs)
             THEN {cs[t][s] - BandWidth(cs[t][s])} ELSE {})
       \cup (IF t = "Doctors" /\ s = "Night" THEN {5} ELSE {})
       \cup (IF t = "Nurses" /\ s = "Night" THEN {10} ELSE {})

\* the upper limits a request puts on one cell
CellCeilings(req, t, s) ==
    LET cs == req.current_staff
    IN {50} \cup (IF <<t, s>> \in PairsOf(cs)
                  THEN {cs[t][s] + BandWidth(cs[t][s])} ELSE {})

\* the requirements of a request that involve several cells
JointOK(req, a) ==
    LET cs == req.current_staff
        con == OrEmpty(req.constraints)
    IN /\ HeadCount(cs) > 80 =>
            \A t \in {"Nurses", "Doctors"} :
                a[t]["Morning"] + a[t]["Evening"]
                  >= (9 * (Get2(cs, t, "Morning", 5)
                           + Get2(cs, t, "Evening", 5))) \div 10
       /\ "max_budget" \in DOMAIN con => RatedCost(a) <= con["max_budget"]
       /\ "min_total_staff" \in DOMAIN con =>
            HeadCount(a) >= con["min_total_staff"]
       /\ "max_total_staff" \in DOMAIN con =>
            HeadCount(a) <= con["max_total_staff"]

\* a satisfies every requirement of the request
SatisfiesAll(req, a) ==
    /\ \A c \in Cells :
          /\ \A f \in CellFloors(req, c[1], c[2]) : a[c[1]][c[2]] >= f
          /\ \A g \in CellCeilings(req, c[1], c[2]) : a[c[1]][c[2]] <= g
    /\ JointOK(req, a)

\* every allocation with all cells in 1..50 that satisfies the request
Admissible(req) ==
    LET lo == [c \in Cells |-> MaxOfSet(CellFloors(req, c[1], c[2]))]
        hi == [c \in Cells |-> MinOfSet(CellCeilings(req, c[1], c[2]))]
    IN {a \in BoxOf(lo, hi) : JointOK(req, a)}

\* the heuristic allocation as the specification words it
Heuristic(req) ==
    LET pd == req.predicted_demand
        a(s) == IF "admissions" \in DOMAIN pd /\ pd["admissions"] > 10
                THEN (IF s = "Night" THEN 1 ELSE 2)
                ELSE IF "admissions" \in DOMAIN pd /\ pd["admissions"] < 5
                THEN -1 ELSE 0
        b == IF "bed_occupancy" \in DOMAIN pd /\ pd["bed_occupancy"] > 200
             THEN 1 ELSE 0
    IN [t \in staff_types |->
          [s \in shifts |->
             Max(1, Get2(req.current_staff, t, s, 5) + a(s) + b)]]

----------------------------------------------------------------------------
(* Claims C1 - C8: the optimizer                                           *)

\* C1: every count in the allocation returned by optimize_allocation is an
\* integer between 1 and 50 inclusive, on the solver path and on the
\* heuristic fallback path.
C1_AllocationBounds ==
    Returned =>
        \A c \in PairsOf(result[1].optimized_allocation) :
            result[1].optimized_allocation[c[1]][c[2]] \in 1 .. 50

\* C2: in every result returned by optimize_allocation total_cost is the sum
\* of count x rate over the cells of the returned allocation, and the
\* per-category 'total' entries of cost_breakdown add up to total_cost.
C2_CostConsistency ==
    Returned =>
        LET r == result[1]
        IN /\ r.total_cost = RatedCost(r.optimized_allocation)
           /\ SumOver([t \in DOMAIN r.cost_breakdown |->
                          r.cost_breakdown[t]["total"]],
                      DOMAIN r.cost_breakdown) = r.total_cost

C2_Witness ==
    /\ OnFallbackPath
    /\ result[1].total_cost > 0
    /\ \E t \in staff_types, s \in shifts :
          result[1].optimized_allocation[t][s]
            # Get2(request.current_staff, t, s, 5)

\* C3 as stated: solver_status is exactly "optimal" on the solver path and
\* exactly "heuristic_fallback" on the heuristic path, and nothing else.
C3_StatusAsStated ==
    Returned =>
        /\ result[1].status = "optimal" => result[1].solver_status = "optimal"
        /\ result[1].status = "fallback" =>
              result[1].solver_status = "heuristic_fallback"
        /\ result[1].solver_status \in {"optimal", "heuristic_fallback"}

\* C3 amended: every result returned by optimize_allocation carries a
\* solver_status that is exactly "Optimal" when the allocation was extracted
\* from the solver (an admissible allocation exists) and exactly
\* "heuristic_fallback" when the heuristic produced it; no other value occurs.
C3_StatusValues ==
    Returned =>
        /\ Admissible(request) # {} => result[1].solver_status = "Optimal"
        /\ Admissible(request) = {} =>
              result[1].solver_status = "heuristic_fallback"
        /\ result[1].solver_status \in {"Optimal", "heuristic_fallback"}

C3_Witness ==
    /\ Returned
    /\ result[1].solver_status = "Optimal"
    /\ Admissible(request) # {}

\* C4: every way of not reaching an optimal solution (infeasible problem, or
\* an exception because the solver is unavailable) answers with the same
\* heuristic allocation for the same inputs, together with total cost, cost
\* breakdown and efficiency metrics.
C4_OneHeuristic ==
    (pc = "done" /\ ~OnOptimalPath) =>
        LET r == response[1].optimization_result
        IN /\ r.optimized_allocation = Heuristic(request)
           /\ {"total_cost", "cost_breakdown", "efficiency_metrics"}
                \subseteq DOMAIN r

\* C5: optimize_allocation returns an optimal-path result exactly when some
\* allocation with every cell in 1..50 satisfies all requirements of the
\* request at once, and then the returned allocation satisfies every one of
\* them; otherwise the result is the heuristic fallback.
C5_NoRelaxation ==
    Returned =>
        /\ result[1].status = "optimal" <=> Admissible(request) # {}
        /\ result[1].status = "optimal" =>
              SatisfiesAll(request, result[1].optimized_allocation)
        /\ result[1].status # "optimal" =>
              /\ result[1].status = "fallback"
              /\ result[1].optimized_allocation = Heuristic(request)

C5_Witness ==
    /\ OnFallbackPath
    /\ "bed_occupancy" \in DOMAIN request.predicted_demand
    /\ <<"Nurses", "Morning">> \in PairsOf(request.current_staff)
    /\ Max(3, request.predicted_demand["bed_occupancy"] \div 6)
         > request.current_staff["Nurses"]["Morning"]
           + BandWidth(request.current_staff["Nurses"]["Morning"])

\* C6: on the optimal path no admissible allocation costs less than the
\* returned one, and objective_value equals total_cost.
C6_MinimumCost ==
    OnOptimalPath =>
        /\ \A b \in Admissible(request) :
              RatedCost(b) >= RatedCost(result[1].optimized_allocation)
        /\ result[1].objective_value = result[1].total_cost

C6_Witness ==
    /\ OnOptimalPath
    /\ \E b \in Admissible(request) :
          RatedCost(b) > RatedCost(result[1].optimized_allocation)
    /\ "min_total_staff" \in DOMAIN OrEmpty(request.constraints)
    /\ HeadCount(result[1].optimized_allocation)
         = OrEmpty(request.constraints)["min_total_staff"]

\* C7 as stated: on the optimal path every one of the nine cells lies within
\* the stability band of its current count, a cell absent from current_staff
\* taking the optimizer's default current count of 5.
C7_BandAsStated ==
    OnOptimalPath =>
        \A c \in Cells :
            LET k == Get2(request.current_staff, c[1], c[2], 5)
                n == result[1].optimized_allocation[c[1]][c[2]]
            IN k - BandWidth(k) <= n /\ n <= k + BandWidth(k)

\* C7 amended: on the optimal path every cell that is present in
\* current_staff has k - m <= c <= k + m with m = max(2, floor(0.3 * k)); a
\* cell absent from current_staff has no stability band.
C7_StabilityBand ==
    OnOptimalPath =>
        \A c \in Cells \cap PairsOf(request.current_staff) :
            LET k == request.current_staff[c[1]][c[2]]
                n == result[1].optimized_allocation[c[1]][c[2]]
            IN k - BandWidth(k) <= n /\ n <= k + BandWidth(k)

C7_Witness ==
    /\ OnOptimalPath
    /\ \E c \in Cells \cap PairsOf(request.current_staff) :
          LET k == request.current_staff[c[1]][c[2]]
          IN /\ k - BandWidth(k) > 1
             /\ result[1].optimized_allocation[c[1]][c[2]] = k - BandWidth(k)

\* C8 as stated: every (category, shift) pair of current_staff appears in the
\* returned allocation, pairs outside the built-in lists included.
C8_PairsAsStated ==
    Returned =>
        PairsOf(request.current_staff)
          \subseteq PairsOf(result[1].optimized_allocation)

\* C8 amended: the allocation returned by optimize_allocation holds exactly
\* the nine built-in (category, shift) pairs on both paths, so a pair of
\* current_staff appears in it exactly when its category and its shift are
\* in the built-in lists.
C8_BuiltInPairs ==
    Returned =>
        /\ PairsOf(result[1].optimized_allocation) = Cells
        /\ \A c \in PairsOf(request.current_staff) :
              c \in PairsOf(result[1].optimized_allocation) <=>
                (c[1] \in staff_types /\ c[2] \in shifts)

C8_Witness ==
    /\ Returned
    /\ PairsOf(request.current_staff) \ Cells # {}
    /\ Cells \cap PairsOf(request.current_staff) # {}

----------------------------------------------------------------------------
(* Claims C9 - C10: the forecast model registry                            *)

TrainingCompleted == ml_call.op = "train_models" /\ ~ml_call.raised

\* C9: after train_models(series, horizons) completes, from any prior registry
\* contents, the registry holds a model for a (resource, horizon) pair of the
\* call if and only if the series gives at least 50 labeled rows for that
\* pair (n - horizon rows for a series of n rows).
C9_RegistryAfterTraining ==
    TrainingCompleted =>
        \A t \in Range(target_columns), h \in Range(ml_call.horizons) :
            ModelName(t, h) \in DOMAIN models <=> ml_call.df.rows - h >= 50

\* C10 as stated: every value in the mapping returned by predict_resources
\* is >= 0, for every resource and every requested horizon, from a registered
\* model or from the carry-forward fallback.
C10_NonNegativeAsStated ==
    Len(predictions) = 1 =>
        \A t \in DOMAIN predictions[1] :
            \A label \in DOMAIN predictions[1][t] :
                predictions[1][t][label] >= 0

\* the value of a resource in the last row of the input of the last call
LastObserved(t) ==
    IF t \in Range(ml_call.current_data.keys)
    THEN ml_call.current_data.values[t] ELSE 0

\* C10 amended: every value predict_resources takes from a registered model
\* is >= 0 whatever the sign of the raw model output; a value from the
\* carry-forward fallback is not clipped and is >= 0 exactly when the
\* resource's last observed value is.
C10_NonNegative ==
    Len(predictions) = 1 =>
        \A t \in Range(target_columns), h \in Range(ml_call.horizons) :
            LET value == predictions[1][t][HorizonLabel(h)]
            IN IF ModelName(t, h) \in DOMAIN models
               THEN value >= 0
               ELSE value >= 0 <=> LastObserved(t) >= 0

C10_Witness ==
    /\ Len(predictions) = 1
    /\ \E t \in Range(target_columns), h \in Range(ml_call.horizons) :
          /\ ModelName(t, h) \in DOMAIN models
          /\ ml_call.raw[<<t, h>>] < 0
          /\ predictions[1][t][HorizonLabel(h)] = 0
    /\ \E t \in Range(target_columns), h \in Range(ml_call.horizons) :
          /\ ModelName(t, h) \notin DOMAIN models
          /\ predictions[1][t][HorizonLabel(h)] < 0

----------------------------------------------------------------------------
\* predict_resources returned a mapping
Predicted == ml_call.op = "predict_resources" /\ Len(predictions) = 1

\* C11: predict_resources returns an entry for every target resource and
\* every requested horizon, and for each pair without a registered model the
\* returned value is the value of that resource in the last row of the
\* input, unchanged.
C11_CarryForward ==
    Predicted =>
        /\ DOMAIN predictions[1] = Range(target_columns)
        /\ \A t \in Range(target_columns) :
              /\ DOMAIN predictions[1][t]
                   = {HorizonLabel(h) : h \in Range(ml_call.horizons)}
              /\ \A h \in Range(ml_call.horizons) :
                    ModelName(t, h) \notin DOMAIN models =>
                        /\ t \in Range(ml_call.current_data.keys)
                        /\ predictions[1][t][HorizonLabel(h)]
                             = ml_call.current_data.values[t]

C11_Witness ==
    /\ Predicted
    /\ Len(ml_call.horizons) = 2
    /\ \E t \in Range(target_columns), h \in Range(ml_call.horizons) :
          /\ ModelName(t, h) \notin DOMAIN models
          /\ predictions[1][t][HorizonLabel(h)] = 8
    /\ \E t \in Range(target_columns), h \in Range(ml_call.horizons) :
          ModelName(t, h) \in DOMAIN models

----------------------------------------------------------------------------
\* the reader saw the schema and, for every pair it asked for, the model (or
\* the absence of one) of the registry r
SawExactly(r) ==
    /\ reader.X_columns = r.feature_columns
    /\ \A p \in DOMAIN reader.seen :
          reader.seen[p] = IF ModelName(p[1], p[2]) \in DOMAIN r.models
                           THEN <<r.models[ModelName(p[1], p[2])]>>
                           ELSE <<>>

\* a prediction call and exactly one training call overlapped and both ended
Overlapped ==
    /\ reader.pc = "done" /\ ~reader.raised
    /\ trainer.pc = "done" /\ ~trainer.raised
    /\ reader.during = {trainer.id}

\* C12: a prediction call that runs concurrently with train_models reads a
\* schema and a set of models that are either entirely those from before the
\* training call or entirely those from after it, never a mixture.
C12_NoPartialRegistry ==
    Overlapped => SawExactly(trainer.before) \/ SawExactly(trainer.after)

----------------------------------------------------------------------------
\* C13: whenever predict_resources evaluates a registered model, the feature
\* vector passed to it has exactly the column names, in the same order, that
\* this model was trained on, after any sequence of train_models and
\* load_models calls.
C13_SchemaOfModel ==
    ml_call.op = "predict_resources" =>
        \A p \in ml_call.evaluated :
            models[ModelName(p[1], p[2])].trained_on = ml_call.X_columns

\* C14: if load_models fails at any step, models, feature_columns and
\* target_columns are left exactly as they were before the call.
C14_FailedLoadKeepsRegistry ==
    (ml_call.op = "load_models" /\ ~ml_call.returned) =>
        /\ models = ml_call.before.models
        /\ feature_columns = ml_call.before.feature_columns
        /\ target_columns = ml_call.before.target_columns

----------------------------------------------------------------------------
\* C15: a well-formed prediction request never fails because a model is
\* missing: for every registry state, a registry with no models included,
\* the caller receives a prediction mapping instead of an error.
C15_NoErrorForMissingModel ==
    (ml_call.op = "POST /predict-resources" /\ ~ml_call.raised) =>
        /\ response[1].status_code = 200
        /\ DOMAIN response[1].predictions = Range(target_columns)

----------------------------------------------------------------------------
\* the number of rows of a series
Rows(s) == Len(s["admissions"])

\* C16: for every target resource, every lag k in {1, 2, 3, 6, 12, 24} and
\* every row t, create_lag_features gives lag_k[t] = raw[t - k] when t >= k
\* and a missing value when t < k.
C16_LagCorrectness ==
    features.op = "create_lag_features" =>
        \A i \in 1 .. 2 :
            \A k \in {1, 2, 3, 6, 12, 24}, t \in 0 .. Rows(series[i]) - 1 :
                LET lag_k == features.tables[i][features.target_col
                                                \o "_lag_" \o ToString(k)]
                    raw_col == series[i][features.target_col]
                IN IF t >= k
                   THEN lag_k[t + 1] = raw_col[t - k + 1]
                        /\ Len(lag_k[t + 1]) = 1
                   ELSE lag_k[t + 1] = <<>>

C16_Witness ==
    /\ features.op = "create_lag_features"
    /\ Rows(series[1]) = 26
    /\ features.tables[1][features.target_col \o "_lag_24"][26]
         = series[1][features.target_col][2]
    /\ features.tables[1][features.target_col \o "_lag_24"][26]
         # features.tables[1][features.target_col \o "_lag_12"][26]
    /\ features.tables[1][features.target_col \o "_lag_24"][24] = <<>>

\* the rolling statistics of the feature table
RollingColumns ==
    {t \o suffix : t \in Range(DefaultTargetColumns),
                   suffix \in {"_roll_mean_6", "_roll_mean_24",
                               "_roll_std_6"}}
    \cup {"admission_rate_trend", "discharge_rate_trend"}

\* the two series have rows 0..t and agree on them
AgreeUpTo(t) ==
    /\ t < Rows(series[1]) /\ t < Rows(series[2])
    /\ \A k \in DOMAIN series[1] :
          SubSeq(series[1][k], 1, t + 1) = SubSeq(series[2][k], 1, t + 1)

\* C17: in the table returned by prepare_features every rolling statistic at
\* row t depends only on raw rows 0..t (two series that agree on rows 0..t
\* have equal rolling features at row t), and every row has a value.
C17_NoLookAhead ==
    features.op = "prepare_features" =>
        /\ \A c \in RollingColumns, t \in 0 .. 25 :
              AgreeUpTo(t) =>
                  features.tables[1][c][t + 1] = features.tables[2][c][t + 1]
        /\ \A i \in 1 .. 2, c \in RollingColumns :
              \A t \in 1 .. Rows(series[i]) :
                  Len(features.tables[i][c][t]) = 1

----------------------------------------------------------------------------
(* Claims C18 - C20: the heuristic's arithmetic and the demand minimums    *)

Admissions == request.predicted_demand["admissions"]

HasAdmissions == "admissions" \in DOMAIN request.predicted_demand

HasOccupancy == "bed_occupancy" \in DOMAIN request.predicted_demand

\* the admissions-derived term a of the heuristic on shift s
TermA(s) ==
    IF HasAdmissions /\ Admissions > 10
    THEN (IF s \in {"Morning", "Evening"} THEN 2 ELSE 1)
    ELSE IF HasAdmissions /\ Admissions < 5 THEN -1
    ELSE 0

\* the occupancy-derived term b of the heuristic
TermB ==
    IF HasOccupancy /\ request.predicted_demand["bed_occupancy"] > 200
    THEN 1 ELSE 0

\* the current count of a cell, 5 where current_staff has no such cell
CurrentOf(t, s) ==
    IF t \in DOMAIN request.current_staff
       /\ s \in DOMAIN request.current_staff[t]
    THEN request.current_staff[t][s] ELSE 5

\* C18: in the optimizer's heuristic fallback every cell's returned count is
\* max(1, current + a + b), a = +2 on Morning and Evening and +1 on Night if
\* admissions > 10, -1 on every shift if admissions < 5, 0 otherwise, and
\* b = +1 if bed occupancy > 200, 0 otherwise; no count falls below 1.
C18_HeuristicArithmetic ==
    OnFallbackPath =>
        \A t \in staff_types, s \in shifts :
            LET count == result[1].optimized_allocation[t][s]
                wanted == CurrentOf(t, s) + TermA(s) + TermB
            IN /\ count = (IF wanted >= 1 THEN wanted ELSE 1)
               /\ count >= 1
               /\ (HasAdmissions /\ Admissions = 3) => TermA(s) = -1

C18_Witness ==
    /\ OnFallbackPath
    /\ HasAdmissions /\ Admissions = 3
    /\ \E t \in staff_types, s \in shifts :
          /\ CurrentOf(t, s) + TermA(s) + TermB < 1
          /\ result[1].optimized_allocation[t][s] = 1
    /\ \E t \in staff_types, s \in shifts :
          /\ TermB = 1
          /\ result[1].optimized_allocation[t][s] = CurrentOf(t, s)
          /\ CurrentOf(t, s) > 1

\* C19: on the optimal path, when predicted bed occupancy b is supplied, the
\* returned nurse count of each shift is at least max(3, floor(b / r)) with
\* r = 6 for Morning, 8 for Evening and 12 for Night.
C19_NurseMinimum ==
    (OnOptimalPath /\ HasOccupancy) =>
        LET b == request.predicted_demand["bed_occupancy"]
            nurses == result[1].optimized_allocation["Nurses"]
        IN /\ nurses["Morning"] >= Max(3, b \div 6)
           /\ nurses["Evening"] >= Max(3, b \div 8)
           /\ nurses["Night"] >= Max(3, b \div 12)

C19_Witness ==
    /\ OnOptimalPath /\ HasOccupancy
    /\ request.predicted_demand["bed_occupancy"] = 120
    /\ result[1].optimized_allocation["Nurses"]["Morning"] = 20
    /\ result[1].optimized_allocation["Nurses"]["Evening"] = 15

\* the request without its admissions value
WithoutAdmissions ==
    [request EXCEPT !.predicted_demand =
        [k \in DOMAIN request.predicted_demand \ {"admissions"} |->
            request.predicted_demand[k]]]

\* the support-staff trigger is on the same side with and without admissions
SameSupportTrigger ==
    LET b == IF HasOccupancy THEN request.predicted_demand["bed_occupancy"]
             ELSE 0
    IN (Admissions + b > 200) <=> (b > 200)

\* C20: on the optimal path, admissions > 12 gives Doctors.Morning >= 12 and
\* Doctors.Evening >= 10, admissions < 5 gives Doctors.Morning >= 8 and
\* Doctors.Evening >= 6, and admissions from 5 to 12 add no doctor
\* constraint: the result is one the same request without admissions gets.
C20_DoctorMinimums ==
    (OnOptimalPath /\ HasAdmissions) =>
        LET doctors == result[1].optimized_allocation["Doctors"]
        IN /\ Admissions > 12 =>
                doctors["Morning"] >= 12 /\ doctors["Evening"] >= 10
           /\ Admissions < 5 =>
                doctors["Morning"] >= 8 /\ doctors["Evening"] >= 6
           /\ (Admissions >= 5 /\ Admissions <= 12 /\ SameSupportTrigger) =>
                /\ result[1].optimized_allocation
                     \in Admissible(WithoutAdmissions)
                /\ \A a \in Admissible(WithoutAdmissions) :
                      RatedCost(result[1].optimized_allocation)
                        <= RatedCost(a)
                /\ Admissible(request) = Admissible(WithoutAdmissions)

C20_Witness ==
    /\ OnOptimalPath /\ HasAdmissions
    /\ Admissions = 12
    /\ result[1].optimized_allocation["Doctors"]["Morning"] < 8

C20_WitnessHigh ==
    /\ OnOptimalPath /\ HasAdmissions
    /\ Admissions = 14
    /\ result[1].optimized_allocation["Doctors"]["Morning"] = 12
    /\ result[1].optimized_allocation["Doctors"]["Evening"] = 10

C20_WitnessLow ==
    /\ OnOptimalPath /\ HasAdmissions
    /\ Admissions < 5
    /\ result[1].optimized_allocation["Doctors"]["Morning"] = 8
    /\ result[1].optimized_allocation["Doctors"]["Evening"] = 6

----------------------------------------------------------------------------
(* Claims C21 - C24: support staff, night floors, custom constraints and   *)
(* the weekend requirement                                                 *)

\* predicted admissions plus predicted bed occupancy, a missing one as 0
Activity ==
    (IF HasAdmissions THEN Admissions ELSE 0)
    + (IF HasOccupancy THEN request.predicted_demand["bed_occupancy"] ELSE 0)

\* the constraints supplied with the request, none when absent or None
Supplied == IF Len(request.constraints) = 0 THEN EmptyDict
            ELSE request.constraints[1]

\* the least count the variable lower bound and the stability band allow
BandFloor(t, s) ==
    IF <<t, s>> \in PairsOf(request.current_staff)
    THEN LET k == request.current_staff[t][s]
         IN IF k - BandWidth(k) >= 1 THEN k - BandWidth(k) ELSE 1
    ELSE 1

\* C21: on the optimal path, admissions + bed occupancy > 200 gives
\* Support_Staff.Morning >= 8 and Support_Staff.Evening >= 8; with a sum of
\* 200 or less no support minimum beyond the variable lower bound and the
\* stability band applies, so the cheapest allocation sits on that floor
\* unless a total-staff minimum was asked for.
C21_SupportMinimum ==
    OnOptimalPath =>
        LET support == result[1].optimized_allocation["Support_Staff"]
        IN /\ Activity > 200 =>
                support["Morning"] >= 8 /\ support["Evening"] >= 8
           /\ (Activity <= 200 /\ "min_total_staff" \notin DOMAIN Supplied) =>
                \A s \in {"Morning", "Evening"} :
                    support[s] = BandFloor("Support_Staff", s)

C21_Witness ==
    /\ OnOptimalPath
    /\ Activity = 201
    /\ request.current_staff["Support_Staff"]["Morning"] = 7
    /\ result[1].optimized_allocation["Support_Staff"]["Morning"] = 8

C21_WitnessAt200 ==
    /\ OnOptimalPath
    /\ Activity = 200
    /\ request.current_staff["Support_Staff"]["Morning"] = 7
    /\ result[1].optimized_allocation["Support_Staff"]["Morning"] = 5

\* the most the variable upper bound and the stability band allow
BandCeiling(t, s) ==
    IF <<t, s>> \in PairsOf(request.current_staff)
    THEN LET k == request.current_staff[t][s]
         IN IF k + BandWidth(k) <= 50 THEN k + BandWidth(k) ELSE 50
    ELSE 50

\* C22: every allocation returned on the optimal path has Doctors.Night >= 5
\* and Nurses.Night >= 10; an input whose stability band cannot accommodate
\* these floors never yields an optimal-path result.
C22_NightFloors ==
    Returned =>
        /\ result[1].status = "optimal" =>
              /\ result[1].optimized_allocation["Doctors"]["Night"] >= 5
              /\ result[1].optimized_allocation["Nurses"]["Night"] >= 10
        /\ (BandCeiling("Doctors", "Night") < 5
            \/ BandCeiling("Nurses", "Night") < 10) =>
              result[1].status = "fallback"

C22_Witness ==
    /\ OnOptimalPath
    /\ request.current_staff["Nurses"]["Night"] = 8
    /\ result[1].optimized_allocation["Nurses"]["Night"] = 10
    /\ request.current_staff["Doctors"]["Night"] = 3
    /\ result[1].optimized_allocation["Doctors"]["Night"] = 5

C22_WitnessFallback ==
    /\ OnFallbackPath
    /\ BandCeiling("Nurses", "Night") = 9
    /\ \A c \in Cells \ {<<"Nurses", "Night">>} :
          \A f \in CellFloors(request, c[1], c[2]) :
              f <= BandCeiling(c[1], c[2])

\* the allocations the request admits when its custom constraints are left
\* out, and of these the ones that keep the supplied custom constraints
AdmissibleUncustomised == Admissible([request EXCEPT !.constraints = <<>>])

KeepsSupplied(a) ==
    /\ "max_budget" \in DOMAIN Supplied => RatedCost(a) <= Supplied["max_budget"]
    /\ "min_total_staff" \in DOMAIN Supplied =>
          HeadCount(a) >= Supplied["min_total_staff"]
    /\ "max_total_staff" \in DOMAIN Supplied =>
          HeadCount(a) <= Supplied["max_total_staff"]

\* C23: on the optimal path each custom constraint that was supplied holds
\* on the returned allocation, and a key that was not supplied restricts
\* nothing: the result is a cheapest allocation among those that keep the
\* supplied keys, and with constraints absent, None or empty among all.
C23_CustomConstraints ==
    OnOptimalPath =>
        LET a == result[1].optimized_allocation
        IN /\ "max_budget" \in DOMAIN Supplied =>
                result[1].total_cost <= Supplied["max_budget"]
           /\ "min_total_staff" \in DOMAIN Supplied =>
                HeadCount(a) >= Supplied["min_total_staff"]
           /\ "max_total_staff" \in DOMAIN Supplied =>
                HeadCount(a) <= Supplied["max_total_staff"]
           /\ a \in AdmissibleUncustomised
           /\ \A b \in AdmissibleUncustomised :
                 KeepsSupplied(b) => RatedCost(a) <= RatedCost(b)

C23_Witness ==
    /\ OnOptimalPath
    /\ DOMAIN Supplied = {"min_total_staff"}
    /\ HeadCount(result[1].optimized_allocation) = Supplied["min_total_staff"]
    /\ \E b \in AdmissibleUncustomised :
          RatedCost(b) < RatedCost(result[1].optimized_allocation)

C23_WitnessEmpty ==
    /\ OnOptimalPath
    /\ Len(request.constraints) = 1
    /\ DOMAIN Supplied = {}

C23_WitnessBudget ==
    /\ OnOptimalPath
    /\ "max_budget" \in DOMAIN Supplied
    /\ "min_total_staff" \in DOMAIN Supplied

\* the current Morning + Evening count of a category
CurrentDayCount(t) ==
    SumOver([c \in {d \in PairsOf(request.current_staff) :
                       d[1] = t /\ d[2] \in {"Morning", "Evening"}} |->
                request.current_staff[c[1]][c[2]]],
            {d \in PairsOf(request.current_staff) :
                d[1] = t /\ d[2] \in {"Morning", "Evening"}})

\* C24: on the optimal path, when the total of all current staff counts is
\* greater than 80, the returned Morning + Evening count of Nurses and of
\* Doctors is each at least 90% of the current Morning + Evening count of
\* that category.
C24_WeekendNinetyPercent ==
    (OnOptimalPath /\ HeadCount(request.current_staff) > 80) =>
        \A t \in {"Nurses", "Doctors"} :
            10 * (result[1].optimized_allocation[t]["Morning"]
                  + result[1].optimized_allocation[t]["Evening"])
              >= 9 * CurrentDayCount(t)

====
